---------------------------- MODULE Spec2Model ----------------------------
(***************************************************************************)
(* Retargeting engine of the AR mirror: landmark frames drive the bones of *)
(* a rig.  Three components are modelled:                                  *)
(*   - RobustARMirror (src/unnamed/part_003): procedural avatar driven     *)
(*     directly by pose.onResults, smoothed, decayed by                    *)
(*     resetAvatarToNeutral;                                               *)
(*   - ARMirrorApp + PoseDetector + AvatarScene (src/components,           *)
(*     src/unnamed/part_004:1-360): avatar driven through callbacks;       *)
(*   - ModelAvatarFilter.loadModel (src/unnamed/part_004:598-764): the     *)
(*     bone resolver of a loaded rig.                                      *)
(*                                                                         *)
(* Numbers.  Landmark coordinates are kept in hundredths of the frame      *)
(* (0.4 is 40), rotations in thousandths of a radian (0.1 rad is 100).     *)
(* JavaScript doubles are modelled by these fixed-point integers, every    *)
(* product rounded to the nearest unit, plus the one non-finite value the  *)
(* code can produce, NaN.                                                  *)
(***************************************************************************)
EXTENDS Integers, Sequences, FiniteSets, TLC

\* ------------------------------------------------------------------ bounds
\* Frames a bounded run (Spec) receives.
MaxFrames == 12
\* Frames with a detected pose a run receives before the input settles.
MaxDetected == 2
\* The counters of consecutive frames (missing, repeat) saturate here.
MaxRun == 80
\* Bones of a loaded rig (the scene root not counted).
MaxBones == 3
\* Calls of loadModel in a run.
MaxLoads == 2
\* Runs of the PoseDetector effect whose callbacks and timers are still
\* pending at the same time.
MaxEffects == 2

\* ------------------------------------------------------------------ numbers
\* Rotation units per radian.
Scale == 10^3
\* Tolerance of "within epsilon": 0.01 rad, above the rounding of one step.
Eps == Scale \div 100
\* Math.PI and Math.PI / 2 in rotation units.
Pi == 3142
HalfPi == 1571
\* The IEEE NaN: outside every finite value of the model.
NaN == 10^8

Abs(a) == IF a < 0 THEN -a ELSE a
Sign(a) == IF a < 0 THEN -1 ELSE 1
Min(a, b) == IF a < b THEN a ELSE b
Max(a, b) == IF a > b THEN a ELSE b

\* a / b rounded to the nearest integer, halves away from zero (b > 0).
RoundDiv(a, b) == Sign(a) * ((2 * Abs(a) + b) \div (2 * b))

RECURSIVE SqrtSearch(_, _, _)
SqrtSearch(n, lo, hi) ==
    IF lo >= hi THEN lo
    ELSE LET mid == (lo + hi + 1) \div 2
         IN  IF mid * mid <= n THEN SqrtSearch(n, mid, hi)
             ELSE SqrtSearch(n, lo, mid - 1)

\* Math.sqrt on integers, rounded to the nearest integer (n < 2^31).
Sqrt(n) ==
    LET s == SqrtSearch(n, 0, Min(n, 46340))
    IN  IF n - s * s > s THEN s + 1 ELSE s

\* atan(q / Scale) for 0 <= q <= Scale, in rotation units: the polynomial
\* (pi/4) q + q (1 - q) (0.2447 + 0.0663 q), accurate to 0.0015 rad.
AtanUnit(q) ==
    RoundDiv(7854 * q, 10000)
    + RoundDiv((q * (Scale - q)) * (2447 + RoundDiv(663 * q, Scale)), 10^7)

\* Math.atan2(y, x) for finite y and x (+0 where zero), in rotation units.
Atan2(y, x) ==
    IF x = 0 /\ y = 0 THEN 0
    ELSE LET ax == Abs(x)
             ay == Abs(y)
             a0 == AtanUnit(RoundDiv(Min(ax, ay) * Scale, Max(ax, ay)))
             a1 == IF ay > ax THEN HalfPi - a0 ELSE a0
             a2 == IF x < 0 THEN Pi - a1 ELSE a1
         IN  IF y < 0 THEN -a2 ELSE a2

\* Math.atan2(y, -x) where y and x are differences a - b of finite numbers:
\* a zero x negates to -0, and atan2(+0, -0) is pi.
Atan2NegX(y, x) ==
    IF x = 0 /\ y = 0 THEN Pi ELSE Atan2(y, -x)

\* Math.acos(Math.max(-1, Math.min(1, c))) with c = num / den: 0 / 0 is NaN,
\* Math.min and Math.max return NaN for a NaN argument, and so does acos.
\* num is a dot product of two vectors and den the product of their lengths,
\* in squared coordinate units, so den = 0 implies num = 0.
AcosClamped(num, den) ==
    IF den = 0 THEN NaN
    ELSE LET c == Max(-Scale, Min(Scale, RoundDiv(num * Scale, den)))
         IN  Atan2(Sqrt(Scale * Scale - c * c), c)

\* r += (t - r) * alpha, alpha given in hundredths; NaN is contagious.
Lerp(r, t, alphaPct) ==
    IF r = NaN \/ t = NaN THEN NaN
    ELSE r + RoundDiv((t - r) * alphaPct, 100)

\* a - b and -a on values that may be NaN.
Sub(a, b) == IF a = NaN \/ b = NaN THEN NaN ELSE a - b
Neg(a) == IF a = NaN THEN NaN ELSE -a

\* --------------------------------------------------------------- landmarks
\* The landmark indices the retargeters read (MediaPipe pose numbering).
NOSE == 0
L_SHOULDER == 11
R_SHOULDER == 12
L_ELBOW == 13
R_ELBOW == 14
L_WRIST == 15
R_WRIST == 16
L_HIP == 23
R_HIP == 24
L_KNEE == 25
R_KNEE == 26
LandmarkIdx == {NOSE, L_SHOULDER, R_SHOULDER, L_ELBOW, R_ELBOW, L_WRIST,
                R_WRIST, L_HIP, R_HIP, L_KNEE, R_KNEE}

\* landmarks[i]: a PoseLandmark, or undefined (has = FALSE).
LM(px, py) == [has |-> TRUE, x |-> px, y |-> py]
Undefined == [has |-> FALSE, x |-> 0, y |-> 0]


\* One frame of pose.onResults: results.poseLandmarks, empty or undefined when
\* no pose is detected (detected = FALSE).
Pose(nose, ls, rs, le, re, lw, rw, lh, rh, lk, rk) ==
    (NOSE :> nose) @@ (L_SHOULDER :> ls) @@ (R_SHOULDER :> rs)
    @@ (L_ELBOW :> le) @@ (R_ELBOW :> re) @@ (L_WRIST :> lw) @@ (R_WRIST :> rw)
    @@ (L_HIP :> lh) @@ (R_HIP :> rh) @@ (L_KNEE :> lk) @@ (R_KNEE :> rk)

NoLandmarks == [i \in LandmarkIdx |-> Undefined]
NoPose == [detected |-> FALSE, lm |-> NoLandmarks]
Detected(landmarks) == [detected |-> TRUE, lm |-> landmarks]

\* The poses the frames are drawn from.
\* A standing person waving (the mock pose of ModelAvatarFilter at rest).
PoseStand ==
    Pose(LM(50, 25), LM(38, 35), LM(62, 35), LM(25, 45), LM(75, 45),
         LM(15, 50), LM(85, 50), LM(42, 65), LM(58, 65), LM(41, 80), LM(59, 80))
\* Left arm hanging straight down, right forearm folded up, hips tilted.
PoseDown ==
    Pose(LM(56, 30), LM(40, 40), LM(60, 42), LM(40, 60), LM(60, 62),
         LM(40, 80), LM(62, 50), LM(45, 70), LM(55, 73), LM(48, 90), LM(55, 92))
\* Right wrist out of view, right elbow raised; knees out of view.
PoseNoRightWrist ==
    Pose(LM(45, 20), LM(38, 35), LM(62, 33), LM(30, 50), LM(70, 30),
         LM(28, 62), Undefined, LM(42, 65), LM(58, 67), Undefined, Undefined)
\* Degenerate geometry: left shoulder and left elbow coincide, right elbow
\* and right wrist coincide.
PoseDegenerate ==
    Pose(LM(50, 25), LM(38, 35), LM(62, 35), LM(38, 35), LM(75, 45),
         LM(30, 50), LM(75, 45), LM(42, 65), LM(58, 65), LM(41, 80), LM(59, 80))
\* Only the head and the shoulders in view.
PoseHeadOnly ==
    Pose(LM(60, 40), LM(40, 36), LM(60, 34), Undefined, Undefined,
         Undefined, Undefined, Undefined, Undefined, Undefined, Undefined)

Poses == {PoseStand, PoseDown, PoseNoRightWrist, PoseDegenerate, PoseHeadOnly}
Results == {Detected(p) : p \in Poses} \cup {NoPose}

\* ------------------------------------------------- RobustARMirror: the rig
\* The rotations updateAvatarPose and resetAvatarToNeutral write:
\* bones.head.rotation.y / .x, bones.torso.rotation.z, and rotation.z of
\* leftArm, rightArm, leftElbow, rightElbow, leftHip, rightHip.
Roles == {"headY", "headX", "torso", "leftArm", "rightArm",
          "leftElbow", "rightElbow", "leftHip", "rightHip"}

\* A new THREE.Mesh has rotation (0, 0, 0).
InitialBones == [r \in Roles |-> 0]

\* Smoothing gains, in hundredths.
HeadAlphaPct == 15
TorsoAlphaPct == 15
ArmAlphaPct == 20
ElbowAlphaPct == 20
HipAlphaPct == 10
DecayAlphaPct == 5
\* resetAvatarToNeutral runs on the frames whose count is a multiple of this.
DecayEvery == 10

\* The pose resetAvatarToNeutral interpolates toward.
Neutral ==
    [r \in Roles |->
        CASE r = "leftArm" -> Scale \div 10
          [] r = "rightArm" -> -(Scale \div 10)
          [] r = "leftElbow" -> -(Scale \div 10)
          [] r = "rightElbow" -> Scale \div 10
          [] OTHER -> 0]

\* --- the targets updateAvatarPose computes from the landmarks
\* noseX * 0.3 with noseX = (x - 0.5) * 2
HeadYawTarget(lm) == (lm[NOSE].x - 50) * 6
\* noseY * 0.2 with noseY = -(y - 0.5) * 2
HeadPitchTarget(lm) == -(lm[NOSE].y - 50) * 4
\* (rightShoulder.y - leftShoulder.y) * 3
ShoulderTiltTarget(lm) == (lm[R_SHOULDER].y - lm[L_SHOULDER].y) * 30

LeftArmTarget(lm) ==
    LET deltaX == lm[L_ELBOW].x - lm[L_SHOULDER].x
        deltaY == lm[L_ELBOW].y - lm[L_SHOULDER].y
        targetRotation == Atan2(-deltaY, Abs(deltaX)) - HalfPi
    IN  IF deltaX > 0 THEN -targetRotation ELSE targetRotation

RightArmTarget(lm) ==
    LET deltaX == lm[R_ELBOW].x - lm[R_SHOULDER].x
        deltaY == lm[R_ELBOW].y - lm[R_SHOULDER].y
        targetRotation == Atan2(-deltaY, Abs(deltaX)) - HalfPi
    IN  IF deltaX < 0 THEN -targetRotation ELSE Pi + targetRotation

\* The angle between shoulder->elbow and elbow->wrist.
ElbowAngle(shoulder, elbow, wrist) ==
    LET ux == elbow.x - shoulder.x
        uy == elbow.y - shoulder.y
        fx == wrist.x - elbow.x
        fy == wrist.y - elbow.y
        dot == ux * fx + uy * fy
        \* upperArmLength * forearmLength
        lengths == Sqrt((ux * ux + uy * uy) * (fx * fx + fy * fy))
    IN  AcosClamped(dot, lengths)

\* elbowBend = -(Math.PI - elbowAngle)
LeftElbowTarget(lm) ==
    Neg(Sub(Pi, ElbowAngle(lm[L_SHOULDER], lm[L_ELBOW], lm[L_WRIST])))
\* elbowBend = (Math.PI - elbowAngle)
RightElbowTarget(lm) ==
    Sub(Pi, ElbowAngle(lm[R_SHOULDER], lm[R_ELBOW], lm[R_WRIST]))

\* (rightHip.y - leftHip.y) * 2
HipTiltTarget(lm) == (lm[R_HIP].y - lm[L_HIP].y) * 20
\* Math.atan2(knee.x - hip.x, hip.y - knee.y)
LegAngleTarget(hip, knee) == Atan2(knee.x - hip.x, hip.y - knee.y)


\* --- the blocks of updateAvatarPose, in the order the code runs them; each
\* is guarded by the truthiness of the landmarks it reads.
HeadStep(b, lm) ==
    IF lm[NOSE].has
    THEN [b EXCEPT !["headY"] = Lerp(@, HeadYawTarget(lm), HeadAlphaPct),
                   !["headX"] = Lerp(@, HeadPitchTarget(lm), HeadAlphaPct)]
    ELSE b

TorsoStep(b, lm) ==
    IF lm[L_SHOULDER].has /\ lm[R_SHOULDER].has
    THEN [b EXCEPT !["torso"] = Lerp(@, ShoulderTiltTarget(lm), TorsoAlphaPct)]
    ELSE b

LeftArmStep(b, lm) ==
    IF lm[L_SHOULDER].has /\ lm[L_ELBOW].has
    THEN [b EXCEPT !["leftArm"] = Lerp(@, LeftArmTarget(lm), ArmAlphaPct)]
    ELSE b

RightArmStep(b, lm) ==
    IF lm[R_SHOULDER].has /\ lm[R_ELBOW].has
    THEN [b EXCEPT !["rightArm"] = Lerp(@, RightArmTarget(lm), ArmAlphaPct)]
    ELSE b

LeftElbowStep(b, lm) ==
    IF lm[L_SHOULDER].has /\ lm[L_ELBOW].has /\ lm[L_WRIST].has
    THEN [b EXCEPT !["leftElbow"] = Lerp(@, LeftElbowTarget(lm), ElbowAlphaPct)]
    ELSE b

\* RightElbowStep without the wrist in its guard: an absent wrist read as the
\* frame's origin.
RightElbowStepNoWristGuard(b, lm) ==
    IF lm[R_SHOULDER].has /\ lm[R_ELBOW].has
    THEN [b EXCEPT !["rightElbow"] = Lerp(@, RightElbowTarget(lm), ElbowAlphaPct)]
    ELSE b

RightElbowStep(b, lm) ==
    IF lm[R_SHOULDER].has /\ lm[R_ELBOW].has /\ lm[R_WRIST].has
    THEN [b EXCEPT !["rightElbow"] = Lerp(@, RightElbowTarget(lm), ElbowAlphaPct)]
    ELSE b

HipTiltStep(b, lm) ==
    IF lm[L_HIP].has /\ lm[R_HIP].has
    THEN [b EXCEPT !["leftHip"] = Lerp(@, HipTiltTarget(lm), HipAlphaPct),
                   !["rightHip"] = Lerp(@, HipTiltTarget(lm), HipAlphaPct)]
    ELSE b

LeftLegStep(b, lm) ==
    IF lm[L_HIP].has /\ lm[L_KNEE].has
    THEN [b EXCEPT !["leftHip"] =
              Lerp(@, LegAngleTarget(lm[L_HIP], lm[L_KNEE]), HipAlphaPct)]
    ELSE b

RightLegStep(b, lm) ==
    IF lm[R_HIP].has /\ lm[R_KNEE].has
    THEN [b EXCEPT !["rightHip"] =
              Lerp(@, LegAngleTarget(lm[R_HIP], lm[R_KNEE]), HipAlphaPct)]
    ELSE b

\* updateAvatarPose(landmarks) on the bones b (avatarBonesRef.current is set
\* before pose detection starts, see the guards of the 'Step 3' effect).
UpdateAvatarPose(b, lm) ==
    RightLegStep(
      LeftLegStep(
        HipTiltStep(
          RightElbowStep(
            LeftElbowStep(
              RightArmStep(
                LeftArmStep(
                  TorsoStep(
                    HeadStep(b, lm), lm), lm), lm), lm), lm), lm), lm), lm)

\* resetAvatarToNeutral(): one interpolation step of every rotation toward the
\* neutral pose.
ResetAvatarToNeutral(b) ==
    [r \in Roles |-> Lerp(b[r], Neutral[r], DecayAlphaPct)]


\* ---------------------------------------------------- AvatarScene: the rig
\* The rotations AvatarScene.updateAvatarPose writes: head.rotation.y / .x,
\* torso.rotation.z, and rotation.z of leftShoulder, rightShoulder, leftElbow,
\* rightElbow, leftHip, rightHip.
SceneRoles == {"headY", "headX", "torso", "leftShoulder", "rightShoulder",
               "leftElbow", "rightElbow", "leftHip", "rightHip"}

\* createHumanoidAvatar sets positions only: every rotation starts at 0.
InitialScene == [r \in SceneRoles |-> 0]

SceneHeadStep(b, lm) ==
    IF lm[NOSE].has
    THEN [b EXCEPT !["headY"] = (lm[NOSE].x - 50) * 10,
                   !["headX"] = -(lm[NOSE].y - 50) * 6]
    ELSE b

SceneTorsoStep(b, lm) ==
    IF lm[L_SHOULDER].has /\ lm[R_SHOULDER].has
    THEN [b EXCEPT !["torso"] = (lm[R_SHOULDER].y - lm[L_SHOULDER].y) * 20]
    ELSE b

SceneLeftArmStep(b, lm) ==
    IF lm[L_SHOULDER].has /\ lm[L_ELBOW].has /\ lm[L_WRIST].has
    THEN LET shoulderZ ==
                 Atan2(lm[L_ELBOW].y - lm[L_SHOULDER].y,
                       lm[L_ELBOW].x - lm[L_SHOULDER].x) + HalfPi
         IN  [b EXCEPT !["leftShoulder"] = shoulderZ,
                       !["leftElbow"] =
                           Atan2(lm[L_WRIST].y - lm[L_ELBOW].y,
                                 lm[L_WRIST].x - lm[L_ELBOW].x) - shoulderZ]
    ELSE b

SceneRightArmStep(b, lm) ==
    IF lm[R_SHOULDER].has /\ lm[R_ELBOW].has /\ lm[R_WRIST].has
    THEN LET shoulderZ ==
                 Atan2NegX(lm[R_ELBOW].y - lm[R_SHOULDER].y,
                           lm[R_ELBOW].x - lm[R_SHOULDER].x) - HalfPi
         IN  [b EXCEPT !["rightShoulder"] = shoulderZ,
                       !["rightElbow"] =
                           Atan2NegX(lm[R_WRIST].y - lm[R_ELBOW].y,
                                     lm[R_WRIST].x - lm[R_ELBOW].x) - shoulderZ]
    ELSE b

SceneHipStep(b, lm) ==
    IF lm[L_HIP].has /\ lm[R_HIP].has
    THEN [b EXCEPT !["leftHip"] = (lm[R_HIP].y - lm[L_HIP].y) * 15,
                   !["rightHip"] = (lm[R_HIP].y - lm[L_HIP].y) * 15]
    ELSE b

\* AvatarScene's updateAvatarPose(landmarks, bones): assignments, no smoothing.
SceneUpdateAvatarPose(b, lm) ==
    SceneHipStep(
      SceneRightArmStep(
        SceneLeftArmStep(
          SceneTorsoStep(
            SceneHeadStep(b, lm), lm), lm), lm), lm)

\* ------------------------------------------ ModelAvatarFilter: bone mapping
\* Strings are sequences of one-character strings, so that toLowerCase and
\* includes are computed character by character.
UpperCase ==
    <<"A", "B", "C", "D", "E", "F", "G", "H", "I", "J", "K", "L", "M",
      "N", "O", "P", "Q", "R", "S", "T", "U", "V", "W", "X", "Y", "Z">>
LowerCase ==
    <<"a", "b", "c", "d", "e", "f", "g", "h", "i", "j", "k", "l", "m",
      "n", "o", "p", "q", "r", "s", "t", "u", "v", "w", "x", "y", "z">>

ToLowerChar(c) ==
    IF \E i \in 1..Len(UpperCase) : UpperCase[i] = c
    THEN LowerCase[CHOOSE i \in 1..Len(UpperCase) : UpperCase[i] = c]
    ELSE c

ToLowerCase(str) == [i \in 1..Len(str) |-> ToLowerChar(str[i])]

Includes(str, k) ==
    \E i \in 0..(Len(str) - Len(k)) : \A j \in 1..Len(k) : str[i + j] = k[j]

\* The keywords of the mapping.
Kw ==
    [head |-> <<"h", "e", "a", "d">>,
     skull |-> <<"s", "k", "u", "l", "l">>,
     neck |-> <<"n", "e", "c", "k">>,
     spine |-> <<"s", "p", "i", "n", "e">>,
     chest |-> <<"c", "h", "e", "s", "t">>,
     torso |-> <<"t", "o", "r", "s", "o">>,
     upper |-> <<"u", "p", "p", "e", "r">>,
     one |-> <<"1">>,
     left |-> <<"l", "e", "f", "t">>,
     lUnderscore |-> <<"l", "_">>,
     shoulder |-> <<"s", "h", "o", "u", "l", "d", "e", "r">>,
     clavicle |-> <<"c", "l", "a", "v", "i", "c", "l", "e">>,
     arm |-> <<"a", "r", "m">>,
     fore |-> <<"f", "o", "r", "e">>,
     forearm |-> <<"f", "o", "r", "e", "a", "r", "m">>,
     hand |-> <<"h", "a", "n", "d">>,
     right |-> <<"r", "i", "g", "h", "t">>,
     rUnderscore |-> <<"r", "_">>]

\* The keys of the bones object.
BoneRoles ==
    {"head", "neck", "upperSpine", "spine",
     "leftShoulder", "leftUpperArm", "leftForearm", "leftHand",
     "rightShoulder", "rightUpperArm", "rightForearm", "rightHand"}

IsLeft(name) == Includes(name, Kw.left) \/ Includes(name, Kw.lUnderscore)
IsRight(name) == Includes(name, Kw.right) \/ Includes(name, Kw.rUnderscore)

\* Classify with the upper-arm branches not excluding 'fore' ("none":
\* no branch is taken).
ClassifyArmBeforeFore(childName) ==
    LET name == ToLowerCase(childName) IN
    IF Includes(name, Kw.head) \/ Includes(name, Kw.skull) THEN "head"
    ELSE IF Includes(name, Kw.neck) THEN "neck"
    ELSE IF Includes(name, Kw.spine) \/ Includes(name, Kw.chest)
              \/ Includes(name, Kw.torso)
    THEN IF Includes(name, Kw.upper) \/ Includes(name, Kw.chest)
              \/ Includes(name, Kw.one)
         THEN "upperSpine"
         ELSE "spine"
    ELSE IF IsLeft(name)
              /\ (Includes(name, Kw.shoulder) \/ Includes(name, Kw.clavicle))
    THEN "leftShoulder"
    ELSE IF IsLeft(name) /\ Includes(name, Kw.arm)
    THEN "leftUpperArm"
    ELSE IF IsLeft(name)
              /\ (Includes(name, Kw.forearm) \/ Includes(name, Kw.fore))
    THEN "leftForearm"
    ELSE IF IsLeft(name) /\ Includes(name, Kw.hand) THEN "leftHand"
    ELSE IF IsRight(name)
              /\ (Includes(name, Kw.shoulder) \/ Includes(name, Kw.clavicle))
    THEN "rightShoulder"
    ELSE IF IsRight(name) /\ Includes(name, Kw.arm)
    THEN "rightUpperArm"
    ELSE IF IsRight(name)
              /\ (Includes(name, Kw.forearm) \/ Includes(name, Kw.fore))
    THEN "rightForearm"
    ELSE IF IsRight(name) /\ Includes(name, Kw.hand) THEN "rightHand"
    ELSE "none"

\* The key the if / else-if chain assigns a bone of this name to ("none":
\* no branch is taken).
Classify(childName) ==
    LET name == ToLowerCase(childName) IN
    IF Includes(name, Kw.head) \/ Includes(name, Kw.skull) THEN "head"
    ELSE IF Includes(name, Kw.neck) THEN "neck"
    ELSE IF Includes(name, Kw.spine) \/ Includes(name, Kw.chest)
              \/ Includes(name, Kw.torso)
    THEN IF Includes(name, Kw.upper) \/ Includes(name, Kw.chest)
              \/ Includes(name, Kw.one)
         THEN "upperSpine"
         ELSE "spine"
    ELSE IF IsLeft(name)
              /\ (Includes(name, Kw.shoulder) \/ Includes(name, Kw.clavicle))
    THEN "leftShoulder"
    ELSE IF IsLeft(name) /\ Includes(name, Kw.arm) /\ ~Includes(name, Kw.fore)
    THEN "leftUpperArm"
    ELSE IF IsLeft(name)
              /\ (Includes(name, Kw.forearm) \/ Includes(name, Kw.fore))
    THEN "leftForearm"
    ELSE IF IsLeft(name) /\ Includes(name, Kw.hand) THEN "leftHand"
    ELSE IF IsRight(name)
              /\ (Includes(name, Kw.shoulder) \/ Includes(name, Kw.clavicle))
    THEN "rightShoulder"
    ELSE IF IsRight(name) /\ Includes(name, Kw.arm) /\ ~Includes(name, Kw.fore)
    THEN "rightUpperArm"
    ELSE IF IsRight(name)
              /\ (Includes(name, Kw.forearm) \/ Includes(name, Kw.fore))
    THEN "rightForearm"
    ELSE IF IsRight(name) /\ Includes(name, Kw.hand) THEN "rightHand"
    ELSE "none"

\* The nodes a loaded model is built from: bones of a Mixamo-style rig and a
\* skinned mesh that carries a bone-like name.
NodeHead == [name |-> <<"H", "e", "a", "d">>, isBone |-> TRUE]
NodeHeadTopEnd ==
    [name |-> <<"H", "e", "a", "d", "T", "o", "p", "_", "E", "n", "d">>,
     isBone |-> TRUE]
NodeLeftForeArm ==
    [name |-> <<"L", "e", "f", "t", "F", "o", "r", "e", "A", "r", "m">>,
     isBone |-> TRUE]
NodeHips == [name |-> <<"H", "i", "p", "s">>, isBone |-> TRUE]
NodeHeadMesh == [name |-> <<"H", "e", "a", "d">>, isBone |-> FALSE]
Nodes == {NodeHead, NodeHeadTopEnd, NodeLeftForeArm, NodeHips, NodeHeadMesh}

\* The shoulder (clavicle) and upper-arm bones of a Mixamo-style rig.
ArmNodes ==
    {[name |-> <<"L", "e", "f", "t", "S", "h", "o", "u", "l", "d", "e", "r">>,
      isBone |-> TRUE],
     [name |-> <<"L", "e", "f", "t", "A", "r", "m">>, isBone |-> TRUE],
     [name |-> <<"R", "i", "g", "h", "t", "A", "r", "m">>, isBone |-> TRUE]}

\* The key of each of these nodes' names, tabulated.
KeyOf == [nd \in Nodes \cup ArmNodes |-> Classify(nd.name)]

\* A model (gltf.scene): node 0 is the scene Group, nodes 1..n hang below it,
\* parent[i] < i, and the children of a node are in index order.  A
\* malformed model has one more entry in the children array of node
\* back.from: node back.to, an ancestor of back.from or back.from itself.
NoBack == [from |-> 0, to |-> 0]
Parents(n) == {q \in [1..n -> 0..n] : \A i \in 1..n : q[i] < i}

RigsOf(n) ==
    {[parent |-> p, node |-> nd, back |-> NoBack] :
        p \in Parents(n), nd \in [1..n -> Nodes]}

Rigs == UNION {RigsOf(n) : n \in 0..MaxBones}
NoRig == [parent |-> <<>>, node |-> <<>>, back |-> NoBack]

RECURSIVE AncestorOrSelf(_, _, _)
AncestorOrSelf(p, a, i) == i # 0 /\ (a = i \/ AncestorOrSelf(p, a, p[i]))

CyclicRigsOf(n) ==
    {r \in {[parent |-> p, node |-> nd, back |-> [from |-> f, to |-> t]] :
                p \in Parents(n), nd \in [1..n -> Nodes], f \in 1..n,
                t \in 1..n} :
        AncestorOrSelf(r.parent, r.back.to, r.back.from)}

\* Chains of three bones among the head, the left shoulder and the upper arms.
ArmRigs ==
    {[parent |-> <<0, 1, 2>>, node |-> nd, back |-> NoBack] :
        nd \in [1..3 -> ArmNodes \cup {NodeHead}]}

\* What the loader can hand to loadModel in a run of overlapping loads:
\* well-formed models of at most one node, chains of head, shoulder and arm
\* bones, and malformed models of at most two nodes.
Assets ==
    RigsOf(0) \cup RigsOf(1) \cup ArmRigs \cup CyclicRigsOf(1)
    \cup CyclicRigsOf(2)

Children(rig, p) ==
    SelectSeq([i \in 1..Len(rig.parent) |-> i],
              LAMBDA i : rig.parent[i] = p)
    \o (IF p # 0 /\ rig.back.from = p THEN <<rig.back.to>> ELSE <<>>)

\* traverse calls itself once per level of the graph.  A tree of n nodes is
\* never deeper than n, far below the call stack of the engine; only a walk
\* that goes round a cycle runs out of stack (RangeError).
RECURSIVE StackExceeded(_, _, _)
StackExceeded(rig, object, depth) ==
    \/ depth > Len(rig.node)
    \/ \E i \in 1..Len(Children(rig, object)) :
           StackExceeded(rig, Children(rig, object)[i], depth + 1)

StackOverflow(rig) == rig.back # NoBack /\ StackExceeded(rig, 0, 0)

\* Object3D.traverse: the callback on the node, then traverse of each child.
RECURSIVE Traverse(_, _)
RECURSIVE TraverseAll(_, _)
Traverse(rig, object) == <<object>> \o TraverseAll(rig, Children(rig, object))

TraverseAll(rig, children) ==
    IF children = <<>>
    THEN <<>>
    ELSE Traverse(rig, Head(children)) \o TraverseAll(rig, Tail(children))

\* The bones object: per key the node assigned to it, 0 for a key never
\* assigned.
NoBones == [r \in BoneRoles |-> 0]

\* MapChild without the test for a bone.
MapChildAnyObject(rig, child, bones) ==
    IF child = 0
    THEN bones
    ELSE LET key == KeyOf[rig.node[child]] IN
         IF key = "none" THEN bones ELSE [bones EXCEPT ![key] = child]

\* The traverse callback on one child.
MapChild(rig, child, bones) ==
    IF child = 0 \/ ~rig.node[child].isBone
    THEN bones
    ELSE LET key == KeyOf[rig.node[child]] IN
         IF key = "none" THEN bones ELSE [bones EXCEPT ![key] = child]

RECURSIVE MapNodes(_, _, _)
MapNodes(rig, order, bones) ==
    IF order = <<>>
    THEN bones
    ELSE MapNodes(rig, Tail(order), MapChild(rig, Head(order), bones))

\* model.traverse(...) of loadModel: the bones object it leaves.
MapBones(rig) == MapNodes(rig, Traverse(rig, 0), NoBones)

\* ------------------------------------------------------------------- state
VARIABLES
    \* the component app/page.tsx mounts
    component,
    \* RobustARMirror: avatarBonesRef.current rotations, the frameCount of the
    \* pose effect, and the personDetected / poseData React state
    avatarBones, frameCount, personDetected, poseData,
    \* ARMirrorApp: the AvatarScene rotations, PoseDetector's state and the
    \* parent's state
    sceneBones, detector, app,
    \* the input: "free" (any frame may come), "hold" (the person holds the
    \* last pose), "lost" (the person has left: no pose is detected any more)
    input,
    \* history: the rotations before the last frame, the last frame, the
    \* frames and detections received, per role the consecutive frames
    \* without a fresh target, the roles that ever had one, the consecutive
    \* repetitions of the last frame, and the passes the last frame ran
    prevBones, prevScene, last, nframes, ndetected, missing, tracked, repeat,
    passes,
    \* ModelAvatarFilter: the calls of loadModel and where each stands, the
    \* models in the three.js scene (by the call that added them),
    \* currentModelRef.current, modelBonesRef.current (with the call that
    \* wrote it), and the modelLoading / error React state
    loads, sceneModels, currentModel, modelBones, modelLoading, loadError,
    \* history: what the loader handed to each call ("nothing", "tree",
    \* "cyclic", "error"), and the last pass of updateModelPose that got past
    \* its guards: the model that was current, the call whose mapping it
    \* used and the joints it rotated
    received, posed,
    \* the currentAvatar React state and the avatar each call of loadModel was
    \* given ("none" before the call)
    stage,
    \* the bone-name classification applied to one name and to the same name
    \* in another letter case
    boneName, recased, boneKey, recasedKey,
    \* the target computations applied to one frame (probe) and to a second
    \* frame related to it (probe2): the rotations each yields, and which of
    \* the two have been computed
    probe, probe2, relation, targets, targets2, retargeted,
    \* RobustARMirror's three-step start: the camera request, the cameraReady
    \* and avatarReady React state, avatarBonesRef, the pose detection of
    \* 'Step 3' and the error state
    startup,
    \* PoseDetector's detection effect: its runs (each with its own
    \* isComponentMounted, detectors, camera and timers), the run that is
    \* current, the isLoading / error React state, whether the parent's
    \* currentHandsData is set, and whether the parent has re-rendered with
    \* new callback props since the current run started
    effects

mirrorVars == <<avatarBones, frameCount, personDetected, poseData>>
appVars == <<sceneBones, detector, app>>
historyVars == <<prevBones, prevScene, last, nframes, ndetected, missing,
                 tracked, repeat, passes>>
filterVars == <<loads, sceneModels, currentModel, modelBones, modelLoading,
                loadError, received, posed, stage>>
classifyVars == <<boneName, recased, boneKey, recasedKey>>
targetVars == <<probe, probe2, relation, targets, targets2, retargeted>>
lifeVars == <<startup, effects>>
vars == <<component, input, mirrorVars, appVars, historyVars, filterVars,
          classifyVars, targetVars, lifeVars>>

\* Whether updateAvatarPose computes a fresh target for role r from a frame.
HasTarget(r, results) ==
    LET lm == results.lm
    IN  /\ results.detected
        /\ CASE r \in {"headY", "headX"} -> lm[NOSE].has
             [] r = "torso" -> lm[L_SHOULDER].has /\ lm[R_SHOULDER].has
             [] r = "leftArm" -> lm[L_SHOULDER].has /\ lm[L_ELBOW].has
             [] r = "rightArm" -> lm[R_SHOULDER].has /\ lm[R_ELBOW].has
             [] r = "leftElbow" ->
                    lm[L_SHOULDER].has /\ lm[L_ELBOW].has /\ lm[L_WRIST].has
             [] r = "rightElbow" ->
                    lm[R_SHOULDER].has /\ lm[R_ELBOW].has /\ lm[R_WRIST].has
             [] r = "leftHip" ->
                    lm[L_HIP].has /\ (lm[R_HIP].has \/ lm[L_KNEE].has)
             [] r = "rightHip" ->
                    lm[R_HIP].has /\ (lm[L_HIP].has \/ lm[R_KNEE].has)

\* The history a received frame leaves behind.
Record(results, nUpdate, nReset) ==
    /\ prevBones' = avatarBones
    /\ prevScene' = sceneBones
    /\ last' = results
    /\ nframes' = Min(nframes + 1, MaxFrames)
    /\ ndetected' = IF results.detected THEN Min(ndetected + 1, MaxDetected)
                    ELSE ndetected
    /\ missing' = [r \in Roles |->
                      IF HasTarget(r, results) THEN 0
                      ELSE Min(missing[r] + 1, MaxRun)]
    /\ tracked' = tracked \cup {r \in Roles : HasTarget(r, results)}
    /\ repeat' = IF nframes > 0 /\ results = last THEN Min(repeat + 1, MaxRun)
                 ELSE 0
    /\ passes' = [update |-> nUpdate, reset |-> nReset]

\* MirrorOnResults applying a detected frame twice.
MirrorOnResultsTwice(results) ==
    /\ component = "RobustARMirror"
    /\ frameCount' = (frameCount + 1) % DecayEvery
    /\ IF results.detected
       THEN /\ personDetected' = TRUE
            /\ poseData' = results
            /\ avatarBones' =
                   UpdateAvatarPose(UpdateAvatarPose(avatarBones, results.lm),
                                    results.lm)
            /\ Record(results, 2, 0)
       ELSE /\ personDetected' = FALSE
            /\ poseData' = NoPose
            /\ IF frameCount' = 0
               THEN /\ avatarBones' = ResetAvatarToNeutral(avatarBones)
                    /\ Record(results, 0, 1)
               ELSE /\ avatarBones' = avatarBones
                    /\ Record(results, 0, 0)
    /\ UNCHANGED <<component, appVars, filterVars, classifyVars,
                 targetVars, lifeVars>>

\* RobustARMirror: pose.onResults(results) while the effect is mounted.
\* frameCount is kept modulo DecayEvery: the code reads it only in
\* frameCount % 10 === 0.
MirrorOnResults(results) ==
    /\ component = "RobustARMirror"
    /\ frameCount' = (frameCount + 1) % DecayEvery
    /\ IF results.detected
       THEN /\ personDetected' = TRUE
            /\ poseData' = results
            /\ avatarBones' = UpdateAvatarPose(avatarBones, results.lm)
            /\ Record(results, 1, 0)
       ELSE /\ personDetected' = FALSE
            /\ poseData' = NoPose
            /\ IF frameCount' = 0
               THEN /\ avatarBones' = ResetAvatarToNeutral(avatarBones)
                    /\ Record(results, 0, 1)
               ELSE /\ avatarBones' = avatarBones
                    /\ Record(results, 0, 0)
    /\ UNCHANGED <<component, appVars, filterVars, classifyVars,
                 targetVars, lifeVars>>

\* ARMirrorApp: PoseDetector's pose.onResults(results) while mounted, with
\* the parent's handlePersonDetected and handlePoseDetected it calls, and
\* AvatarScene.updatePose behind avatarRef.  lastPoseResults is a new object
\* every frame: seq tells two consecutive ones apart.
Deliver(results) ==
    /\ component = "ARMirrorApp"
    /\ IF results.detected
       THEN /\ detector' = [personDetected |-> TRUE, poseData |-> results,
                            seq |-> 1 - detector.seq]
            /\ app' = [personDetected |-> TRUE, currentPoseData |-> results]
            /\ sceneBones' = SceneUpdateAvatarPose(sceneBones, results.lm)
       ELSE /\ detector' = [personDetected |-> FALSE, poseData |-> NoPose,
                            seq |-> 1 - detector.seq]
            /\ app' = [app EXCEPT !.personDetected = FALSE]
            /\ sceneBones' = sceneBones
    /\ UNCHANGED <<component, mirrorVars, filterVars, classifyVars,
                 targetVars>>

\* The same with the history of the run.
DetectorOnResults(results) ==
    /\ Deliver(results)
    /\ Record(results, IF results.detected THEN 1 ELSE 0, 0)

\* One frame delivered to whichever component is mounted.
Frame(results) ==
    \/ MirrorOnResults(results)
    \/ DetectorOnResults(results) /\ UNCHANGED lifeVars

NoModel == [id |-> 0, rig |-> NoRig]

\* The state every component starts from: no frame received, no model loaded.
JustMounted ==
    /\ input = "free"
    /\ avatarBones = InitialBones
    /\ frameCount = 0
    /\ personDetected = FALSE
    /\ poseData = NoPose
    /\ sceneBones = InitialScene
    /\ detector = [personDetected |-> FALSE, poseData |-> NoPose, seq |-> 0]
    /\ app = [personDetected |-> FALSE, currentPoseData |-> NoPose]
    /\ prevBones = InitialBones
    /\ prevScene = InitialScene
    /\ last = NoPose
    /\ nframes = 0
    /\ ndetected = 0
    /\ missing = [r \in Roles |-> 0]
    /\ tracked = {}
    /\ repeat = 0
    /\ passes = [update |-> 0, reset |-> 0]
    /\ loads = [l \in 1..MaxLoads |-> "idle"]
    /\ sceneModels = {}
    /\ currentModel = NoModel
    /\ modelBones = [of |-> 0, map |-> NoBones]
    /\ modelLoading = FALSE
    /\ loadError = FALSE
    /\ received = [l \in 1..MaxLoads |-> "nothing"]
    /\ posed = [active |-> 0, of |-> 0, joints |-> {}]
    /\ stage = [currentAvatar |-> "robot",
                config |-> [l \in 1..MaxLoads |-> "none"]]

\* The values of a rotation the target computations can yield for a frame:
\* has = FALSE when the guard of the role skips the frame.
TargetNames ==
    {"headY", "headX", "torso", "leftArm", "rightArm", "leftElbow",
     "rightElbow", "leftElbowAngle", "rightElbowAngle",
     "sceneHeadX", "sceneLeftShoulder", "sceneRightShoulder"}

Skipped == [has |-> FALSE, v |-> 0]
NoTargets == [t \in TargetNames |-> Skipped]

\* No name classified, no frame probed.
NothingProbed ==
    /\ boneName = <<>>
    /\ recased = <<>>
    /\ boneKey = "pending"
    /\ recasedKey = "pending"
    /\ probe = NoLandmarks
    /\ probe2 = NoLandmarks
    /\ relation = "same"
    /\ targets = NoTargets
    /\ targets2 = NoTargets
    /\ retargeted = {}

\* One run of PoseDetector's detection effect: isComponentMounted (mounted),
\* where initializeDetection stands (init), the Pose object, the Camera,
\* where the delayed initialization of the Hands object stands (hands) and
\* its 3 s timer, whether the 100 ms timer of the cleanup is pending
\* (closing), which detector has results of a sent frame outstanding (sent),
\* and whether the run has delivered a pose result to the parent since its
\* hands failed to initialize (poseAfter).
NoEffect ==
    [mounted |-> FALSE, init |-> "idle", pose |-> "none", camera |-> "none",
     hands |-> "none", timer |-> "none", closing |-> FALSE, sent |-> "none",
     poseAfter |-> FALSE]

\* A run at its first await, the imports of initializeDetection.
FreshEffect == [NoEffect EXCEPT !.mounted = TRUE, !.init = "importing"]

\* The components past their start: RobustARMirror with camera, avatar and
\* pose detection running; PoseDetector with a run whose camera has started.
Settled ==
    /\ startup = [camera |-> "streaming", cameraReady |-> TRUE,
                  avatar |-> "created", avatarReady |-> TRUE,
                  pose |-> "running", error |-> FALSE]
    /\ effects =
           [run |-> [i \in 1..MaxEffects |->
                        IF i = 1
                        THEN [FreshEffect EXCEPT !.init = "started",
                                                 !.pose = "open",
                                                 !.camera = "on",
                                                 !.timer = "pending"]
                        ELSE NoEffect],
            current |-> 1, isLoading |-> FALSE, error |-> FALSE,
            handsData |-> FALSE, rerender |-> FALSE]

Init ==
    /\ component \in {"RobustARMirror", "ARMirrorApp"}
    /\ JustMounted
    /\ NothingProbed
    /\ Settled

\* --- bounded runs: any frame may follow any frame
MirrorFrame ==
    \E results \in Results :
        /\ input = "free"
        /\ nframes < MaxFrames
        /\ results.detected => ndetected < MaxDetected
        /\ MirrorOnResults(results)
        /\ UNCHANGED input

DetectorFrame ==
    \E results \in Results :
        /\ input = "free"
        /\ nframes < MaxFrames
        /\ results.detected => ndetected < MaxDetected
        /\ DetectorOnResults(results)
        /\ UNCHANGED <<input, lifeVars>>

Next == MirrorFrame \/ DetectorFrame

Spec == Init /\ [][Next]_vars

\* --- RobustARMirror's start: camera, then avatar, then pose detection
StartupUnchanged ==
    UNCHANGED <<component, input, mirrorVars, appVars, historyVars,
                filterVars, classifyVars, targetVars, effects>>

\* 'Step 1': initCamera.  getUserMedia resolves and the stream is put on the
\* video element, or it rejects and the catch sets the error.
InitCamera ==
    /\ startup.camera = "requesting"
    /\ \E granted \in BOOLEAN :
           startup' = IF granted
                      THEN [startup EXCEPT !.camera = "streaming"]
                      ELSE [startup EXCEPT !.camera = "failed",
                                           !.error = TRUE]
    /\ StartupUnchanged

\* videoRef.current.onloadedmetadata: setCameraReady(true).
OnLoadedMetadata ==
    /\ startup.camera = "streaming"
    /\ ~startup.cameraReady
    /\ startup' = [startup EXCEPT !.cameraReady = TRUE]
    /\ StartupUnchanged

\* 'Step 2': the avatar effect, run when cameraReady changes.  It returns
\* unless the camera is ready and the container is rendered (it is not on
\* the error screen).  The try block may throw before or after
\* avatarBonesRef is set; setAvatarReady is its last statement but one.
AvatarEffect ==
    /\ startup.cameraReady
    /\ ~startup.error
    /\ startup.avatar = "absent"
    /\ ~startup.avatarReady
    /\ \E outcome \in {"ready", "threwBefore", "threwAfter"} :
           startup' =
               CASE outcome = "ready" ->
                        [startup EXCEPT !.avatar = "created",
                                        !.avatarReady = TRUE]
                 [] outcome = "threwBefore" ->
                        [startup EXCEPT !.error = TRUE]
                 [] outcome = "threwAfter" ->
                        [startup EXCEPT !.avatar = "created",
                                        !.error = TRUE]
    /\ StartupUnchanged

\* PoseEffect starting the detection without waiting for avatarReady.
PoseEffectEarly ==
    /\ startup.cameraReady
    /\ ~startup.error
    /\ startup.pose = "off"
    /\ startup' = [startup EXCEPT !.pose = "importing"]
    /\ StartupUnchanged

\* 'Step 3': the pose effect, run when cameraReady or avatarReady changes.
\* It returns unless both are set and the video element is rendered.
PoseEffect ==
    /\ startup.cameraReady
    /\ startup.avatarReady
    /\ ~startup.error
    /\ startup.pose = "off"
    /\ startup' = [startup EXCEPT !.pose = "importing"]
    /\ StartupUnchanged

\* initializePoseDetection: the import, new Pose, setOptions, onResults and
\* the first sendFrame, or a throw that the catch turns into the error.
InitializePoseDetection ==
    /\ startup.pose = "importing"
    /\ \E ok \in BOOLEAN :
           startup' = IF ok
                      THEN [startup EXCEPT !.pose = "running"]
                      ELSE [startup EXCEPT !.pose = "failed",
                                           !.error = TRUE]
    /\ StartupUnchanged

\* A frame sent by sendFrame comes back through pose.onResults.
StartupFrame ==
    /\ startup.pose = "running"
    /\ MirrorFrame

InitStartup ==
    /\ component = "RobustARMirror"
    /\ JustMounted
    /\ NothingProbed
    /\ startup = [camera |-> "requesting", cameraReady |-> FALSE,
                  avatar |-> "absent", avatarReady |-> FALSE,
                  pose |-> "off", error |-> FALSE]
    /\ effects = [run |-> [i \in 1..MaxEffects |-> NoEffect], current |-> 1,
                  isLoading |-> TRUE, error |-> FALSE, handsData |-> FALSE,
                  rerender |-> FALSE]

NextStartup ==
    \/ InitCamera \/ OnLoadedMetadata \/ AvatarEffect \/ PoseEffect
    \/ InitializePoseDetection \/ StartupFrame

SpecStartup == InitStartup /\ [][NextStartup]_vars

\* --- long runs: a few free frames, then the person holds the last pose or
\* leaves for good; frames keep arriving (sendFrame re-arms its timer, the
\* Camera calls onFrame for every video frame).
LeadFrame ==
    \E results \in Results :
        /\ input = "free"
        /\ nframes < MaxDetected
        /\ Frame(results)
        /\ UNCHANGED input

StartHold ==
    /\ input = "free"
    /\ last.detected
    /\ input' = "hold"
    /\ UNCHANGED <<component, mirrorVars, appVars, historyVars, filterVars,
                 classifyVars, targetVars, lifeVars>>

HoldFrame ==
    /\ input = "hold"
    /\ Frame(last)
    /\ UNCHANGED input

Lose ==
    /\ input = "free"
    /\ input' = "lost"
    /\ UNCHANGED <<component, mirrorVars, appVars, historyVars, filterVars,
                 classifyVars, targetVars, lifeVars>>

LostFrame ==
    /\ input = "lost"
    /\ Frame(NoPose)
    /\ UNCHANGED input

NextRun == LeadFrame \/ StartHold \/ HoldFrame \/ Lose \/ LostFrame

\* sendFrame re-arms itself after every send, so frames keep arriving while
\* nobody is in view.
SpecRun == Init /\ [][NextRun]_vars /\ WF_vars(LostFrame)

\* ------------------------------------ PoseDetector: the detection effect
DetectUnchanged ==
    UNCHANGED <<component, input, mirrorVars, appVars, historyVars,
                filterVars, classifyVars, targetVars, startup>>

\* A run that has nothing left to do: not mounted, no await, timer or
\* results outstanding.
Quiesced(r) ==
    /\ ~r.mounted
    /\ ~r.closing
    /\ r.init \notin {"importing", "configuring", "starting"}
    /\ r.timer # "pending"
    /\ r.hands \notin {"importing", "configuring"}
    /\ r.sent = "none"

\* effects with run i replaced.  A run that has nothing left to do is
\* forgotten.
WithRun(i, r) ==
    [effects EXCEPT !.run[i] = IF Quiesced(r) THEN NoEffect ELSE r]

\* The history kept of the frames of the detection effect: the last frame
\* and whether any was delivered.
Noted(results) ==
    /\ last' = results
    /\ nframes' = Min(nframes + 1, MaxDetected)
    /\ ndetected' = IF results.detected THEN Min(ndetected + 1, MaxDetected)
                    ELSE ndetected
    /\ UNCHANGED <<prevBones, prevScene, missing, tracked, repeat, passes>>

\* The outer catch of initializeDetection, in run i.
Caught(i) ==
    LET r == effects.run[i]
        e == WithRun(i, [r EXCEPT !.init = "failed"])
    IN  IF r.mounted THEN [e EXCEPT !.error = TRUE, !.isLoading = FALSE]
        ELSE e

\* initializeDetection of run i resumes after one of its awaits: the
\* imports, pose.setOptions, camera.start.  The awaited promise may reject
\* (ok = FALSE).  The video element is not rendered on the error screen.
InitializeDetection(i) ==
    LET r == effects.run[i]
    IN  /\ component = "ARMirrorApp"
        /\ r.init \in {"importing", "configuring", "starting"}
        /\ \E ok \in BOOLEAN :
               effects' =
                   IF ~ok THEN Caught(i)
                   ELSE IF r.init = "importing"
                   THEN IF ~r.mounted
                        THEN WithRun(i, [r EXCEPT !.init = "returned"])
                        ELSE WithRun(i, [r EXCEPT !.init = "configuring",
                                                  !.pose = "open"])
                   ELSE IF r.init = "configuring"
                   THEN IF ~r.mounted
                        THEN WithRun(i, [r EXCEPT !.init = "returned"])
                        ELSE IF effects.error
                        THEN WithRun(i, [r EXCEPT !.init = "novideo"])
                        ELSE WithRun(i, [r EXCEPT !.init = "starting",
                                                  !.camera = "on"])
                   ELSE IF r.mounted
                        THEN [WithRun(i, [r EXCEPT !.init = "started",
                                                   !.timer = "pending"])
                                 EXCEPT !.isLoading = FALSE]
                        ELSE WithRun(i, [r EXCEPT !.init = "returned"])
        /\ DetectUnchanged

\* InitializeHands with a failure of the hands handled by the outer catch.
InitializeHandsUncaught(i) ==
    LET r == effects.run[i]
    IN  /\ component = "ARMirrorApp"
        /\ \/ /\ r.timer = "pending"
              /\ effects' =
                     WithRun(i, [r EXCEPT !.timer = "fired",
                                          !.hands = IF r.mounted
                                                    THEN "importing"
                                                    ELSE "returned"])
           \/ /\ r.hands \in {"importing", "configuring"}
              /\ \E ok \in BOOLEAN :
                     effects' =
                         IF ~ok
                         THEN [WithRun(i, [r EXCEPT !.hands =
                                   IF r.hands = "importing" THEN "failed"
                                   ELSE "broken"])
                                  EXCEPT !.error = TRUE, !.isLoading = FALSE]
                         ELSE IF ~r.mounted
                         THEN WithRun(i, [r EXCEPT !.hands =
                                   IF r.hands = "importing" THEN "returned"
                                   ELSE "dropped"])
                         ELSE WithRun(i, [r EXCEPT !.hands =
                                   IF r.hands = "importing" THEN "configuring"
                                   ELSE "listening"])
        /\ DetectUnchanged

\* The delayed initialization of the hands in run i: the 3 s timer fires, or
\* the callback resumes after the import or after hands.setOptions.  A
\* rejection is caught by the inner catch, which only warns: after the
\* import no Hands object exists ("failed"), after setOptions one exists
\* that has no onResults ("broken").
InitializeHands(i) ==
    LET r == effects.run[i]
    IN  /\ component = "ARMirrorApp"
        /\ \/ /\ r.timer = "pending"
              /\ effects' =
                     WithRun(i, [r EXCEPT !.timer = "fired",
                                          !.hands = IF r.mounted
                                                    THEN "importing"
                                                    ELSE "returned"])
           \/ /\ r.hands \in {"importing", "configuring"}
              /\ \E ok \in BOOLEAN :
                     effects' =
                         IF ~ok
                         THEN WithRun(i, [r EXCEPT !.hands =
                                   IF r.hands = "importing" THEN "failed"
                                   ELSE "broken"])
                         ELSE IF ~r.mounted
                         THEN WithRun(i, [r EXCEPT !.hands =
                                   IF r.hands = "importing" THEN "returned"
                                   ELSE "dropped"])
                         ELSE WithRun(i, [r EXCEPT !.hands =
                                   IF r.hands = "importing" THEN "configuring"
                                   ELSE "listening"])
        /\ DetectUnchanged

\* The started Camera calls onFrame of run i, which sends the frame to the
\* Pose object.  In the free phase the frames are bounded as in LeadFrame.
OnFrame(i) ==
    LET r == effects.run[i]
    IN  /\ component = "ARMirrorApp"
        /\ r.init = "started"
        /\ r.camera = "on"
        /\ r.sent = "none"
        /\ r.mounted
        /\ ~effects.error
        /\ r.pose = "open"
        /\ input = "free" => nframes < MaxDetected
        /\ effects' = WithRun(i, [r EXCEPT !.sent = "pose"])
        /\ DetectUnchanged

\* The frames the camera sees: anybody or nobody while the input is free,
\* the last frame again while the person holds the pose.
Seen == IF input = "hold" THEN {last} ELSE {Detected(PoseStand), NoPose}

\* OnResults without the isComponentMounted test of pose.onResults.
OnResultsUnguarded(i) ==
    LET r == effects.run[i]
    IN  /\ r.sent = "pose"
        /\ \E results \in Seen :
               /\ Deliver(results)
               /\ Noted(results)
               /\ effects' =
                      [WithRun(i, [r EXCEPT
                           !.sent = IF r.hands = "listening" /\ r.mounted
                                    THEN "hands" ELSE "none",
                           !.poseAfter = r.hands \in {"failed", "broken"}])
                          EXCEPT !.rerender = @ \/ results.detected
                                                \/ app.personDetected]
        /\ UNCHANGED <<input, startup>>

\* The results of the frame sent by run i arrive: pose.onResults, which
\* returns when the run is not mounted and else calls the parent's
\* handlePersonDetected and handlePoseDetected.  setCurrentPoseData gets a
\* new array every time and setPersonDetected a new value when it differs:
\* the parent renders again and hands new functions to PoseDetector.  Back
\* in onFrame, the frame goes to the Hands object if there is one.
OnResults(i) ==
    LET r == effects.run[i]
    IN  /\ r.sent = "pose"
        /\ IF r.mounted
           THEN \E results \in Seen :
                   /\ Deliver(results)
                   /\ Noted(results)
                   /\ effects' =
                          [WithRun(i, [r EXCEPT
                               !.sent = IF r.hands = "listening"
                                        THEN "hands" ELSE "none",
                               !.poseAfter = r.hands \in {"failed", "broken"}])
                              EXCEPT !.rerender = @ \/ results.detected
                                                    \/ app.personDetected]
                   /\ UNCHANGED <<input, startup>>
           ELSE /\ effects' = WithRun(i, [r EXCEPT !.sent = "none"])
                /\ DetectUnchanged

\* hands.onResults of run i, which returns when the run is not mounted and
\* else calls the parent's handleHandsDetected with the hands or with a new
\* empty array: setCurrentHandsData makes the parent render again.
OnHandsResults(i) ==
    LET r == effects.run[i]
    IN  /\ component = "ARMirrorApp"
        /\ r.sent = "hands"
        /\ effects' =
               IF r.mounted /\ r.hands = "listening"
               THEN [WithRun(i, [r EXCEPT !.sent = "none"])
                        EXCEPT !.handsData = TRUE, !.rerender = TRUE]
               ELSE WithRun(i, [r EXCEPT !.sent = "none"])
        /\ DetectUnchanged

\* React commits the parent's render: the callback props differ, so the
\* cleanup of the current run is called (isComponentMounted = false,
\* camera.stop(), the 100 ms timer) and the effect runs again.  The new run
\* takes the first place that is free.
Rerender ==
    /\ component = "ARMirrorApp"
    /\ effects.rerender
    /\ effects.run[effects.current].mounted
    /\ \E j \in 1..MaxEffects :
           LET c == effects.current
               r == effects.run[c]
           IN  /\ j # c
               /\ Quiesced(effects.run[j])
               /\ \A k \in 1..(j - 1) :
                      k = c \/ ~Quiesced(effects.run[k])
               /\ effects' =
                      [effects EXCEPT
                          !.run[c] = [r EXCEPT
                              !.mounted = FALSE,
                              !.camera = IF @ = "on" THEN "stopped" ELSE @,
                              !.closing = TRUE],
                          !.run[j] = FreshEffect,
                          !.current = j,
                          !.rerender = FALSE]
    /\ DetectUnchanged

\* ARMirrorApp is unmounted: the cleanup of the current run is called and
\* the effect does not run again.
Unmount ==
    LET c == effects.current
        r == effects.run[c]
    IN  /\ component = "ARMirrorApp"
        /\ r.mounted
        /\ effects' =
               [effects EXCEPT
                   !.run[c] = [r EXCEPT
                       !.mounted = FALSE,
                       !.camera = IF @ = "on" THEN "stopped" ELSE @,
                       !.closing = TRUE]]
        /\ DetectUnchanged

\* The 100 ms timer of the cleanup of run i: pose.close(), hands.close().
CloseDetectors(i) ==
    LET r == effects.run[i]
    IN  /\ component = "ARMirrorApp"
        /\ r.closing
        /\ effects' =
               WithRun(i, [r EXCEPT
                   !.closing = FALSE,
                   !.pose = IF @ = "open" THEN "closed" ELSE @,
                   !.hands = IF @ \in {"configuring", "listening", "broken",
                                       "dropped"}
                             THEN "closed" ELSE @])
        /\ DetectUnchanged

InitDetect ==
    /\ component = "ARMirrorApp"
    /\ JustMounted
    /\ NothingProbed
    /\ startup = [camera |-> "requesting", cameraReady |-> FALSE,
                  avatar |-> "absent", avatarReady |-> FALSE,
                  pose |-> "off", error |-> FALSE]
    /\ effects = [run |-> [i \in 1..MaxEffects |->
                              IF i = 1 THEN FreshEffect ELSE NoEffect],
                  current |-> 1, isLoading |-> TRUE, error |-> FALSE,
                  handsData |-> FALSE, rerender |-> FALSE]

NextDetect ==
    \/ \E i \in 1..MaxEffects : InitializeDetection(i)
    \/ \E i \in 1..MaxEffects : InitializeHands(i)
    \/ \E i \in 1..MaxEffects : OnFrame(i)
    \/ \E i \in 1..MaxEffects : OnResults(i)
    \/ \E i \in 1..MaxEffects : OnHandsResults(i)
    \/ \E i \in 1..MaxEffects : CloseDetectors(i)
    \/ Rerender \/ Unmount \/ StartHold

\* Promises settle, timers fire, the Camera keeps calling onFrame and React
\* commits a pending render.
SpecDetect ==
    /\ InitDetect
    /\ [][NextDetect]_vars
    /\ WF_vars(\E i \in 1..MaxEffects : InitializeDetection(i))
    /\ WF_vars(\E i \in 1..MaxEffects : InitializeHands(i))
    /\ WF_vars(\E i \in 1..MaxEffects : OnFrame(i))
    /\ WF_vars(\E i \in 1..MaxEffects : OnResults(i))
    /\ WF_vars(\E i \in 1..MaxEffects : OnHandsResults(i))
    /\ WF_vars(\E i \in 1..MaxEffects : CloseDetectors(i))
    /\ WF_vars(Rerender)


\* --------------------------------------------- ModelAvatarFilter: loadModel
\* loadModel is async: a call runs up to the dynamic imports, then removes
\* the current model and asks the loader for the new one, then (loader
\* resolved) maps the bones and adds the model, or (loader rejected) reports
\* the error.  Calls are numbered in the order they are made.
LoadModelStart(l, avatarId) ==
    /\ component = "ModelAvatarFilter"
    /\ loads[l] = "idle"
    /\ \A k \in 1..(l - 1) : loads[k] # "idle"
    /\ loads' = [loads EXCEPT ![l] = "importing"]
    /\ modelLoading' = TRUE
    /\ stage' = [currentAvatar |-> avatarId,
                 config |-> [stage.config EXCEPT ![l] = avatarId]]
    /\ UNCHANGED <<sceneModels, currentModel, modelBones, loadError, received,
                   posed>>

LoadModelImported(l) ==
    /\ component = "ModelAvatarFilter"
    /\ loads[l] = "importing"
    /\ loads' = [loads EXCEPT ![l] = "fetching"]
    /\ sceneModels' = sceneModels \ {currentModel.id}
    /\ currentModel' = NoModel
    /\ UNCHANGED <<modelBones, modelLoading, loadError, received, posed,
                   stage>>

\* LoadModelResolved filling the bones object the previous call left behind
\* instead of a new one.
LoadModelResolvedRetaining(l, rig) ==
    /\ component = "ModelAvatarFilter"
    /\ loads[l] = "fetching"
    /\ loads' = [loads EXCEPT ![l] = "done"]
    /\ modelLoading' = FALSE
    /\ IF StackOverflow(rig)
       THEN /\ received' = [received EXCEPT ![l] = "cyclic"]
            /\ loadError' = TRUE
            /\ UNCHANGED <<sceneModels, currentModel, modelBones>>
       ELSE /\ received' = [received EXCEPT ![l] = "tree"]
            /\ modelBones' =
                   [of |-> l,
                    map |-> MapNodes(rig, Traverse(rig, 0), modelBones.map)]
            /\ sceneModels' = sceneModels \cup {l}
            /\ currentModel' = [id |-> l, rig |-> rig]
            /\ UNCHANGED loadError
    /\ UNCHANGED <<posed, stage>>

LoadModelResolved(l, rig) ==
    /\ component = "ModelAvatarFilter"
    /\ loads[l] = "fetching"
    /\ loads' = [loads EXCEPT ![l] = "done"]
    /\ modelLoading' = FALSE
    /\ IF StackOverflow(rig)
       THEN \* model.traverse throws; the catch block reports it
            /\ received' = [received EXCEPT ![l] = "cyclic"]
            /\ loadError' = TRUE
            /\ UNCHANGED <<sceneModels, currentModel, modelBones>>
       ELSE /\ received' = [received EXCEPT ![l] = "tree"]
            /\ modelBones' = [of |-> l, map |-> MapBones(rig)]
            /\ sceneModels' = sceneModels \cup {l}
            /\ currentModel' = [id |-> l, rig |-> rig]
            /\ UNCHANGED loadError
    /\ UNCHANGED <<posed, stage>>

LoadModelRejected(l) ==
    /\ component = "ModelAvatarFilter"
    /\ loads[l] = "fetching"
    /\ loads' = [loads EXCEPT ![l] = "done"]
    /\ loadError' = TRUE
    /\ modelLoading' = FALSE
    /\ received' = [received EXCEPT ![l] = "error"]
    /\ UNCHANGED <<sceneModels, currentModel, modelBones, posed, stage>>

\* a || b on two entries of the bones object.
Either(a, b) == IF a # 0 THEN a ELSE b

\* updateModelPose without the guard on currentModelRef.current.
UpdateModelPoseUnguarded ==
    /\ component = "ModelAvatarFilter"
    /\ posed' = [active |-> currentModel.id,
                 of |-> modelBones.of,
                 joints |-> {Either(modelBones.map["head"],
                                    modelBones.map["neck"]),
                             Either(modelBones.map["leftShoulder"],
                                    modelBones.map["leftUpperArm"]),
                             Either(modelBones.map["rightShoulder"],
                                    modelBones.map["rightUpperArm"])} \ {0}]
    /\ UNCHANGED <<loads, sceneModels, currentModel, modelBones, modelLoading,
                   loadError, received, stage>>

\* updateModelPose without the test of headBone: with neither a head nor a
\* neck bone the read of headBone.rotation throws and the pass ends there.
UpdateModelPoseHeadUnchecked ==
    /\ component = "ModelAvatarFilter"
    /\ currentModel.id # 0
    /\ posed' = [active |-> currentModel.id,
                 of |-> modelBones.of,
                 joints |->
                     IF Either(modelBones.map["head"],
                               modelBones.map["neck"]) = 0
                     THEN {}
                     ELSE {Either(modelBones.map["head"],
                                  modelBones.map["neck"]),
                           Either(modelBones.map["leftShoulder"],
                                  modelBones.map["leftUpperArm"]),
                           Either(modelBones.map["rightShoulder"],
                                  modelBones.map["rightUpperArm"])} \ {0}]
    /\ UNCHANGED <<loads, sceneModels, currentModel, modelBones, modelLoading,
                   loadError, received, stage>>

\* The animation loop calling updateModelPose with a frame in which the
\* whole upper body is visible: past the guard it rotates the head bone and
\* the two arm bones the mapping of modelBonesRef.current holds.
UpdateModelPose ==
    /\ component = "ModelAvatarFilter"
    /\ currentModel.id # 0
    /\ posed' = [active |-> currentModel.id,
                 of |-> modelBones.of,
                 joints |-> {Either(modelBones.map["head"],
                                    modelBones.map["neck"]),
                             Either(modelBones.map["leftShoulder"],
                                    modelBones.map["leftUpperArm"]),
                             Either(modelBones.map["rightShoulder"],
                                    modelBones.map["rightUpperArm"])} \ {0}]
    /\ UNCHANGED <<loads, sceneModels, currentModel, modelBones, modelLoading,
                   loadError, received, stage>>

PoseUnchanged ==
    UNCHANGED <<component, input, mirrorVars, appVars, historyVars,
                classifyVars, targetVars, lifeVars>>

StartLoad ==
    (\E l \in 1..MaxLoads : LoadModelStart(l, stage.currentAvatar))
    /\ PoseUnchanged
Imported == (\E l \in 1..MaxLoads : LoadModelImported(l)) /\ PoseUnchanged
Resolved ==
    (\E l \in 1..MaxLoads : \E rig \in Rigs : LoadModelResolved(l, rig))
    /\ PoseUnchanged
Rejected == (\E l \in 1..MaxLoads : LoadModelRejected(l)) /\ PoseUnchanged

InitResolve ==
    /\ component = "ModelAvatarFilter"
    /\ JustMounted
    /\ NothingProbed
    /\ Settled

NextResolve == StartLoad \/ Imported \/ Resolved \/ Rejected

SpecResolve == InitResolve /\ [][NextResolve]_vars

\* Avatar switches with overlapping and failing loads, the animation loop
\* running in between.
ResolvedAsset ==
    (\E l \in 1..MaxLoads : \E rig \in Assets : LoadModelResolved(l, rig))
    /\ PoseUnchanged
PoseModel == UpdateModelPose /\ PoseUnchanged

\* The ids of avatarModels.
Avatars == {"robot", "astronaut", "knight"}

\* handleAvatarChange(avatarId): setCurrentAvatar and a call of loadModel.
SelectAvatar ==
    (\E l \in 1..MaxLoads : \E avatarId \in Avatars :
        LoadModelStart(l, avatarId))
    /\ PoseUnchanged

\* A viewport resize: the cleanup of the scene effect clears the scene and
\* initThreeJS puts a new, empty one in sceneRef.current.  The other refs
\* are left as they are.
RecreateScene ==
    /\ component = "ModelAvatarFilter"
    /\ sceneModels' = {}
    /\ UNCHANGED <<loads, currentModel, modelBones, modelLoading, loadError,
                   received, posed, stage>>
    /\ PoseUnchanged

NextLoads ==
    \/ StartLoad \/ SelectAvatar \/ Imported \/ ResolvedAsset \/ Rejected
    \/ RecreateScene \/ PoseModel

SpecLoads == InitResolve /\ [][NextLoads]_vars

\* ---------------------------------- ModelAvatarFilter: classifying one name
\* Bone names put together from a prefix, a side and a part, in the letter
\* cases rigs use.
Prefixes == {<<>>, <<"m", "i", "x", "a", "m", "o", "r", "i", "g", ":">>}
Sides ==
    {<<>>, <<"L", "e", "f", "t">>, <<"l", "e", "f", "t">>,
     <<"L", "E", "F", "T">>, <<"L", "_">>, <<"R", "i", "g", "h", "t">>}
Parts ==
    {<<"F", "o", "r", "e", "A", "r", "m">>,
     <<"f", "o", "r", "e", "a", "r", "m">>, <<"F", "o", "r", "e">>,
     <<"A", "r", "m">>, <<"S", "h", "o", "u", "l", "d", "e", "r">>,
     <<"H", "a", "n", "d">>, <<"H", "e", "a", "d">>}

NameProbes == {p \o sd \o pt : p \in Prefixes, sd \in Sides, pt \in Parts}
MixamoLeftForeArm ==
    <<"m", "i", "x", "a", "m", "o", "r", "i", "g", ":",
      "L", "e", "f", "t", "F", "o", "r", "e", "A", "r", "m">>

ToUpperChar(c) ==
    IF \E i \in 1..Len(LowerCase) : LowerCase[i] = c
    THEN UpperCase[CHOOSE i \in 1..Len(LowerCase) : LowerCase[i] = c]
    ELSE c

ToUpperCase(str) == [i \in 1..Len(str) |-> ToUpperChar(str[i])]

\* The traverse callback classifying the bone of each of the two names.
ClassifyBone ==
    /\ component = "ModelAvatarFilter"
    /\ boneName # <<>>
    /\ boneKey = "pending"
    /\ boneKey' = Classify(boneName)
    /\ recasedKey' = Classify(recased)
    /\ UNCHANGED <<component, input, mirrorVars, appVars, historyVars,
                   filterVars, boneName, recased, targetVars, lifeVars>>

InitClassify ==
    /\ component = "ModelAvatarFilter"
    /\ JustMounted
    /\ boneName \in NameProbes
    /\ recased \in {ToLowerCase(boneName), ToUpperCase(boneName)}
    /\ boneKey = "pending"
    /\ recasedKey = "pending"
    /\ probe = NoLandmarks
    /\ probe2 = NoLandmarks
    /\ relation = "same"
    /\ targets = NoTargets
    /\ targets2 = NoTargets
    /\ retargeted = {}
    /\ Settled

NextClassify == ClassifyBone

SpecClassify == InitClassify /\ [][NextClassify]_vars

\* ------------------------------------------- the target computations alone
\* The frames the target computations are probed with: the left shoulder at
\* (0.4, 0.4), the left elbow below, beside and above it and on it, the left
\* wrist below the elbow, folded back or out of view, the nose at several
\* heights; the other landmarks as in PoseStand.
ProbeNoses == {LM(50, 30), LM(50, 50), LM(56, 70)}
ProbePoses ==
    {[PoseStand EXCEPT ![NOSE] = n, ![L_SHOULDER] = LM(40, 40),
                       ![L_ELBOW] = e, ![L_WRIST] = w] :
        n \in ProbeNoses,
        e \in {LM(40, 60), LM(30, 50), LM(50, 50), LM(25, 40), LM(40, 20),
               LM(40, 40)},
        w \in {LM(40, 80), LM(30, 55), Undefined}}

\* The landmark of the other side of the body.
Opposite(i) ==
    CASE i = L_SHOULDER -> R_SHOULDER [] i = R_SHOULDER -> L_SHOULDER
      [] i = L_ELBOW -> R_ELBOW [] i = R_ELBOW -> L_ELBOW
      [] i = L_WRIST -> R_WRIST [] i = R_WRIST -> L_WRIST
      [] i = L_HIP -> R_HIP [] i = R_HIP -> L_HIP
      [] i = L_KNEE -> R_KNEE [] i = R_KNEE -> L_KNEE
      [] OTHER -> i

\* The horizontal mirror image of a frame: x becomes 1 - x and the left and
\* right landmarks are swapped.
MirrorPose(lm) ==
    [i \in LandmarkIdx |->
        IF lm[Opposite(i)].has
        THEN LM(100 - lm[Opposite(i)].x, lm[Opposite(i)].y)
        ELSE Undefined]

\* The frames related to lm: its mirror image; the frame whose right arm has
\* the geometry of the left arm of lm; the frames of the probes with the
\* nose of lm further down (larger y).
RelatedPoses(lm, rel) ==
    CASE rel = "mirror" -> {MirrorPose(lm)}
      [] rel = "twin" ->
             {[lm EXCEPT ![R_SHOULDER] = lm[L_SHOULDER],
                         ![R_ELBOW] = lm[L_ELBOW], ![R_WRIST] = lm[L_WRIST]]}
      [] rel = "lower" ->
             {[lm EXCEPT ![NOSE] = n] :
                 n \in {m \in ProbeNoses : m.y > lm[NOSE].y}}

Target(has, v) == IF has THEN [has |-> TRUE, v |-> v] ELSE Skipped

\* The targets RobustARMirror's updateAvatarPose computes from one frame.
MirrorTargets(lm) ==
    [t \in TargetNames |->
        CASE t = "headY" -> Target(lm[NOSE].has, HeadYawTarget(lm))
          [] t = "headX" -> Target(lm[NOSE].has, HeadPitchTarget(lm))
          [] t = "torso" ->
                 Target(lm[L_SHOULDER].has /\ lm[R_SHOULDER].has,
                        ShoulderTiltTarget(lm))
          [] t = "leftArm" ->
                 Target(lm[L_SHOULDER].has /\ lm[L_ELBOW].has,
                        LeftArmTarget(lm))
          [] t = "rightArm" ->
                 Target(lm[R_SHOULDER].has /\ lm[R_ELBOW].has,
                        RightArmTarget(lm))
          [] t = "leftElbowAngle" ->
                 Target(lm[L_SHOULDER].has /\ lm[L_ELBOW].has /\ lm[L_WRIST].has,
                        ElbowAngle(lm[L_SHOULDER], lm[L_ELBOW], lm[L_WRIST]))
          [] t = "leftElbow" ->
                 Target(lm[L_SHOULDER].has /\ lm[L_ELBOW].has /\ lm[L_WRIST].has,
                        LeftElbowTarget(lm))
          [] t = "rightElbowAngle" ->
                 Target(lm[R_SHOULDER].has /\ lm[R_ELBOW].has /\ lm[R_WRIST].has,
                        ElbowAngle(lm[R_SHOULDER], lm[R_ELBOW], lm[R_WRIST]))
          [] t = "rightElbow" ->
                 Target(lm[R_SHOULDER].has /\ lm[R_ELBOW].has /\ lm[R_WRIST].has,
                        RightElbowTarget(lm))
          [] OTHER -> Skipped]

\* The rotations AvatarScene's updateAvatarPose assigns from one frame.
SceneTargets(lm) ==
    LET b == SceneUpdateAvatarPose(InitialScene, lm) IN
    [t \in TargetNames |->
        CASE t = "sceneHeadX" -> Target(lm[NOSE].has, b["headX"])
          [] t = "sceneLeftShoulder" ->
                 Target(lm[L_SHOULDER].has /\ lm[L_ELBOW].has /\ lm[L_WRIST].has,
                        b["leftShoulder"])
          [] t = "sceneRightShoulder" ->
                 Target(lm[R_SHOULDER].has /\ lm[R_ELBOW].has /\ lm[R_WRIST].has,
                        b["rightShoulder"])
          [] OTHER -> Skipped]

TargetsOf(lm) ==
    IF component = "RobustARMirror" THEN MirrorTargets(lm) ELSE SceneTargets(lm)

\* updateAvatarPose computing its targets from the first frame.
RetargetProbe ==
    /\ 1 \notin retargeted
    /\ targets' = TargetsOf(probe)
    /\ retargeted' = retargeted \cup {1}
    /\ UNCHANGED <<component, input, mirrorVars, appVars, historyVars,
                   filterVars, classifyVars, lifeVars, probe, probe2, relation,
                   targets2>>

\* updateAvatarPose computing its targets from the related frame.
RetargetProbe2 ==
    /\ 2 \notin retargeted
    /\ targets2' = TargetsOf(probe2)
    /\ retargeted' = retargeted \cup {2}
    /\ UNCHANGED <<component, input, mirrorVars, appVars, historyVars,
                   filterVars, classifyVars, lifeVars, probe, probe2, relation,
                   targets>>

InitTargets ==
    /\ component \in {"RobustARMirror", "ARMirrorApp"}
    /\ JustMounted
    /\ boneName = <<>>
    /\ recased = <<>>
    /\ boneKey = "pending"
    /\ recasedKey = "pending"
    /\ probe \in ProbePoses
    /\ relation \in {"mirror", "twin", "lower"}
    /\ probe2 \in RelatedPoses(probe, relation)
    /\ targets = NoTargets
    /\ targets2 = NoTargets
    /\ retargeted = {}
    /\ Settled

NextTargets == RetargetProbe \/ RetargetProbe2

SpecTargets == InitTargets /\ [][NextTargets]_vars

\* ------------------------------------------------------------------ claims
Finite(v) == v # NaN
Within(v, t) == Finite(v) /\ Finite(t) /\ Abs(v - t) <= Eps
\* The threshold of missing frames the specification names.
MissingThreshold == DecayEvery
Mirror == component = "RobustARMirror"

\* The smoothing gain of a role, in hundredths.
AlphaPct(r) ==
    CASE r \in {"headY", "headX"} -> HeadAlphaPct
      [] r = "torso" -> TorsoAlphaPct
      [] r \in {"leftArm", "rightArm"} -> ArmAlphaPct
      [] r \in {"leftElbow", "rightElbow"} -> ElbowAlphaPct
      [] OTHER -> HipAlphaPct

\* The values that can be called the target of role r in a frame that has
\* one: for a hip the hip tilt, the stance angle of that side, and their sum.
HipTargets(lm, hip, knee) ==
    (IF lm[L_HIP].has /\ lm[R_HIP].has THEN {HipTiltTarget(lm)} ELSE {})
    \cup (IF lm[hip].has /\ lm[knee].has
          THEN {LegAngleTarget(lm[hip], lm[knee])} ELSE {})
    \cup (IF lm[L_HIP].has /\ lm[R_HIP].has /\ lm[knee].has
          THEN {HipTiltTarget(lm) + LegAngleTarget(lm[hip], lm[knee])}
          ELSE {})

RoleTargets(r, lm) ==
    CASE r = "headY" -> {HeadYawTarget(lm)}
      [] r = "headX" -> {HeadPitchTarget(lm)}
      [] r = "torso" -> {ShoulderTiltTarget(lm)}
      [] r = "leftArm" -> {LeftArmTarget(lm)}
      [] r = "rightArm" -> {RightArmTarget(lm)}
      [] r = "leftElbow" -> {LeftElbowTarget(lm)}
      [] r = "rightElbow" -> {RightElbowTarget(lm)}
      [] r = "leftHip" -> HipTargets(lm, L_HIP, L_KNEE)
      [] r = "rightHip" -> HipTargets(lm, R_HIP, R_KNEE)

\* The first bone in traversal order that the mapping assigns to a key, 0 if
\* there is none.
Matching(rig, key) ==
    SelectSeq(Traverse(rig, 0),
              LAMBDA n : n # 0 /\ rig.node[n].isBone
                         /\ KeyOf[rig.node[n]] = key)

FirstMatch(rig, key) ==
    IF Matching(rig, key) = <<>> THEN 0 ELSE Head(Matching(rig, key))

\* C1: bone resolution is first-match-wins: a role matched by several bones
\* of the loaded model is mapped to the first of them in pre-order from the
\* root, and later matching bones leave the mapping unchanged.
C1_FirstMatchWins ==
    (currentModel.id # 0 /\ modelBones.of = currentModel.id) =>
        \A key \in BoneRoles :
            modelBones.map[key] = FirstMatch(currentModel.rig, key)

\* C2: no NaN (or infinite) rotation is ever written to a joint; a frame with
\* degenerate geometry skips the affected role.
C2_NoNaNWritten ==
    /\ \A r \in Roles : Finite(avatarBones[r])
    /\ \A r \in SceneRoles : Finite(sceneBones[r])

\* C3: after 50 consecutive frames without a fresh target for a role, its
\* applied value has moved monotonically toward the neutral value and is
\* within epsilon of it (finite values: a NaN rotation is C2's matter).
C3_DecayWithin50Frames ==
    Mirror =>
        \A r \in Roles :
            (Finite(avatarBones[r]) /\ Finite(prevBones[r])) =>
                /\ missing[r] >= 1 =>
                       Abs(avatarBones[r] - Neutral[r])
                           <= Abs(prevBones[r] - Neutral[r])
                /\ missing[r] >= 50 => Within(avatarBones[r], Neutral[r])

\* C4: a frame without the right wrist but with right shoulder and right
\* elbow is handled normally and leaves the right elbow rotation exactly as
\* the previous frame left it, in the procedural avatar and in AvatarScene.
C4_Case ==
    /\ nframes > 0
    /\ last.detected
    /\ last.lm[R_SHOULDER].has
    /\ last.lm[R_ELBOW].has
    /\ ~last.lm[R_WRIST].has

C4_MissingWristKeepsForearm ==
    C4_Case =>
        IF Mirror
        THEN /\ avatarBones["rightElbow"] = prevBones["rightElbow"]
             /\ personDetected
             /\ avatarBones["rightArm"] =
                    Lerp(prevBones["rightArm"], RightArmTarget(last.lm),
                         ArmAlphaPct)
        ELSE /\ sceneBones["rightElbow"] = prevScene["rightElbow"]
             /\ app.personDetected

C4_Witness ==
    /\ C4_Case
    /\ Mirror
    /\ Finite(prevBones["rightElbow"])
    /\ ~Within(prevBones["rightElbow"], Neutral["rightElbow"])
    /\ prevBones["rightElbow"] # 0

\* C5: a role's value is not moved toward neutral until the role has gone
\* more than the threshold of consecutive frames without a fresh target.
C5_NoDecayBeforeThreshold ==
    (Mirror /\ nframes > 0) =>
        \A r \in Roles :
            (~HasTarget(r, last) /\ missing[r] <= MissingThreshold) =>
                avatarBones[r] = prevBones[r]

\* C6: once a role has had a fresh target, decay resumes only after a full
\* threshold of consecutive frames without one.
C6_DecayOnlyAfterFullThreshold ==
    (Mirror /\ nframes > 0) =>
        \A r \in tracked :
            (~HasTarget(r, last) /\ avatarBones[r] # prevBones[r]) =>
                missing[r] >= MissingThreshold

\* C7: every frame advances every role exactly once: one interpolation step
\* toward its fresh target, or (no fresh target) nothing up to the threshold
\* and one decay step past it, in frames with and without a detected pose.
C7_EveryRoleAdvancedOnce ==
    (Mirror /\ nframes > 0) =>
        \A r \in Roles :
            IF HasTarget(r, last)
            THEN \E t \in RoleTargets(r, last.lm) :
                     avatarBones[r] = Lerp(prevBones[r], t, AlphaPct(r))
            ELSE IF missing[r] > MissingThreshold
                 THEN avatarBones[r] =
                          Lerp(prevBones[r], Neutral[r], DecayAlphaPct)
                 ELSE avatarBones[r] = prevBones[r]

\* C8: once the person has left, every rotation eventually comes within
\* epsilon of its neutral value, in both avatar variants (finite values).
AllFinite ==
    /\ \A r \in Roles : Finite(avatarBones[r])
    /\ \A r \in SceneRoles : Finite(sceneBones[r])

\* In the component that is not mounted the rig is never created; its
\* rotations stay those of Init.  The neutral pose of the procedural avatar
\* is compared only where it is mounted.
RigNeutral ==
    IF Mirror
    THEN \A r \in Roles : Within(avatarBones[r], Neutral[r])
    ELSE \A r \in SceneRoles : Within(sceneBones[r], InitialScene[r])

C8_EventuallyNeutral ==
    [](((input = "lost") /\ AllFinite) => <>RigNeutral)

\* C9: the same frame fed repeatedly brings every role with a (finite) target
\* to that target without overshoot, where it stays: once the rotations no
\* longer change they are within epsilon of the targets.
C9_ConvergesToTarget ==
    (Mirror /\ input = "hold" /\ repeat >= 1) =>
        \A r \in Roles :
            (HasTarget(r, last) /\ Finite(avatarBones[r])
               /\ \A t \in RoleTargets(r, last.lm) : Finite(t)) =>
                /\ \E t \in RoleTargets(r, last.lm) :
                       (prevBones[r] - t) * (avatarBones[r] - t) >= 0
                /\ avatarBones = prevBones =>
                       \E t \in RoleTargets(r, last.lm) :
                           Within(avatarBones[r], t)

\* C10: a detected frame is applied to the rig exactly once, a frame without
\* a pose runs at most one decay pass, and the rig changes only in the
\* handler of a newly received frame.
C10_FrameEffect ==
    (Mirror /\ nframes > 0) =>
        IF last.detected
        THEN /\ avatarBones = UpdateAvatarPose(prevBones, last.lm)
             /\ passes = [update |-> 1, reset |-> 0]
        ELSE /\ avatarBones \in {prevBones, ResetAvatarToNeutral(prevBones)}
             /\ passes.update = 0
             /\ passes.reset <= 1

C11_ForearmClassified ==
    boneKey # "pending" =>
        /\ boneName = MixamoLeftForeArm => boneKey = "leftForearm"
        /\ recasedKey = boneKey
        /\ (IsLeft(ToLowerCase(boneName))
              /\ Includes(ToLowerCase(boneName), Kw.fore)) =>
               boneKey \notin {"leftUpperArm", "rightUpperArm"}

C11_Witness ==
    /\ boneName = MixamoLeftForeArm
    /\ recased = ToUpperCase(MixamoLeftForeArm)
    /\ boneKey = "leftForearm"

\* C12: a rig with zero joints is resolved to a mapping with every role
\* unmapped, and no error is raised or recorded.
NoJoints(rig) == \A i \in 1..Len(rig.node) : ~rig.node[i].isBone

C12_ZeroJointRigUnmapped ==
    [][(currentModel' # currentModel /\ currentModel'.id # 0
          /\ NoJoints(currentModel'.rig)) =>
           /\ modelBones' = [of |-> currentModel'.id, map |-> NoBones]
           /\ loadError' = loadError
           /\ loads'[currentModel'.id] = "done"]_vars

C12_Witness ==
    /\ currentModel.id # 0
    /\ Len(currentModel.rig.node) = 2
    /\ NoJoints(currentModel.rig)
    /\ modelBones = [of |-> currentModel.id, map |-> NoBones]
    /\ ~loadError

\* C13: a rig whose joint graph has a cycle is rejected with a
\* StructuralError: its resolution ends, leaves no mapping for that rig, and
\* the error reaches the caller of loadModel (the call ends as "threw", its
\* promise rejected, instead of "done").
C13_CyclicRigRejected ==
    \A l \in 1..MaxLoads :
        received[l] = "cyclic" => (loads[l] = "threw" /\ modelBones.of # l)

\* C14: a pass of updateModelPose that rotates joints uses the mapping
\* resolved from the model that is current at that pass, across avatar
\* switches, failed loads and overlapping loads.
C14_MappingOfActiveRig ==
    /\ posed.joints # {} => (posed.active # 0 /\ posed.of = posed.active)
    /\ currentModel.id # 0 => modelBones.of = currentModel.id

C14_Witness ==
    /\ received[1] = "tree"
    /\ posed.joints # {}
    /\ posed.active = 2
    /\ posed.of = 2

\* C15: with the left shoulder at (0.4, 0.4) and the left elbow at
\* (0.4, 0.6), the arm hanging straight down, the left-upper-arm target is
\* the hanging-down reference angle 0, within tolerance, in both retargeters.
C15_HangingArmIsZero ==
    (1 \in retargeted /\ probe[L_SHOULDER] = LM(40, 40)
       /\ probe[L_ELBOW] = LM(40, 60)) =>
        /\ Mirror =>
               (targets["leftArm"].has /\ Within(targets["leftArm"].v, 0))
        /\ (~Mirror /\ targets["sceneLeftShoulder"].has) =>
               Within(targets["sceneLeftShoulder"].v, 0)

\* C16: for a frame and its horizontal mirror image, the right-upper-arm
\* target of the mirror image is the negation of the left-upper-arm target
\* of the frame.
C16_MirroredArmsNegated ==
    (Mirror /\ relation = "mirror" /\ retargeted = {1, 2}
       /\ targets["leftArm"].has) =>
        /\ targets2["rightArm"].has
        /\ Within(targets2["rightArm"].v, -targets["leftArm"].v)

\* The upper-arm rotation AvatarScene assigns from the shoulder and the elbow
\* of a side: what updateAvatarPose writes once the wrists are in view.
WithWrists(lm) ==
    [lm EXCEPT ![L_WRIST] = IF @.has THEN @ ELSE lm[L_ELBOW],
               ![R_WRIST] = IF @.has THEN @ ELSE lm[R_ELBOW]]

\* C17: in every frame with the shoulder and the elbow of a side, the
\* upper-arm target of that side is produced (and the upper arm moved toward
\* it), whether or not the wrist is in the frame.
C17_UpperArmWithoutWrist ==
    (nframes > 0 /\ last.detected) =>
        /\ (Mirror /\ last.lm[L_SHOULDER].has /\ last.lm[L_ELBOW].has) =>
               avatarBones["leftArm"] =
                   Lerp(prevBones["leftArm"], LeftArmTarget(last.lm),
                        ArmAlphaPct)
        /\ (Mirror /\ last.lm[R_SHOULDER].has /\ last.lm[R_ELBOW].has) =>
               avatarBones["rightArm"] =
                   Lerp(prevBones["rightArm"], RightArmTarget(last.lm),
                        ArmAlphaPct)
        /\ (~Mirror /\ last.lm[L_SHOULDER].has /\ last.lm[L_ELBOW].has) =>
               sceneBones["leftShoulder"] =
                   SceneUpdateAvatarPose(prevScene,
                                         WithWrists(last.lm))["leftShoulder"]
        /\ (~Mirror /\ last.lm[R_SHOULDER].has /\ last.lm[R_ELBOW].has) =>
               sceneBones["rightShoulder"] =
                   SceneUpdateAvatarPose(prevScene,
                                         WithWrists(last.lm))["rightShoulder"]

\* C18: the elbow angle is always within [0, pi], and for identical arm
\* geometry the left and right forearm bend targets are exact negatives of
\* each other, the left in [-pi, 0] and the right in [0, pi].
C18_ElbowAngleInRange ==
    (Mirror /\ relation = "twin" /\ retargeted = {1, 2}
       /\ targets["leftElbow"].has) =>
        /\ targets["leftElbowAngle"].v >= 0
        /\ targets["leftElbowAngle"].v <= Pi
        /\ targets2["rightElbow"].has
        /\ targets2["rightElbowAngle"].v = targets["leftElbowAngle"].v
        /\ targets["leftElbow"].v = -targets2["rightElbow"].v
        /\ targets["leftElbow"].v >= -Pi /\ targets["leftElbow"].v <= 0
        /\ targets2["rightElbow"].v >= 0 /\ targets2["rightElbow"].v <= Pi

\* C19: the head pitch target is monotonically increasing in the vertical
\* image coordinate of the nose: a nose further down in the frame never has
\* a smaller pitch target.
C19_PitchIncreasesDownward ==
    (relation = "lower" /\ retargeted = {1, 2}) =>
        /\ Mirror => targets2["headX"].v >= targets["headX"].v
        /\ ~Mirror => targets2["sceneHeadX"].v >= targets["sceneHeadX"].v

\* C20: in the simple rig the hip roll and the leg stance are added on the
\* same hip joint: with constant input landmarks the rotation of a hip
\* settles at the sum of the hip-roll term and the stance angle of its side.
C20_HipSettlesAtSum ==
    (Mirror /\ input = "hold" /\ repeat >= 1 /\ avatarBones = prevBones
       /\ last.lm[L_HIP].has /\ last.lm[R_HIP].has) =>
        /\ (last.lm[L_KNEE].has /\ Finite(avatarBones["leftHip"])) =>
               Within(avatarBones["leftHip"],
                      HipTiltTarget(last.lm)
                      + LegAngleTarget(last.lm[L_HIP], last.lm[L_KNEE]))
        /\ (last.lm[R_KNEE].has /\ Finite(avatarBones["rightHip"])) =>
               Within(avatarBones["rightHip"],
                      HipTiltTarget(last.lm)
                      + LegAngleTarget(last.lm[R_HIP], last.lm[R_KNEE]))

\* The roles a pass of updateModelPose drives, each with the role that
\* stands in for it: the head or else the neck, and per side the shoulder
\* or else the upper arm.
DrivenRoles ==
    {<<"head", "neck">>, <<"leftShoulder", "leftUpperArm">>,
     <<"rightShoulder", "rightUpperArm">>}

\* The last pass read the mapping modelBonesRef still holds.
PassOnMapping == posed.active # 0 /\ posed.of = modelBones.of

C24_UpperArmJointRotated ==
    (PassOnMapping /\ modelBones.map["leftShoulder"] # 0
       /\ modelBones.map["leftUpperArm"] # 0) =>
        /\ modelBones.map["leftUpperArm"] \in posed.joints
        /\ modelBones.map["leftShoulder"] \notin posed.joints

\* C22: bone resolution is deterministic: the mapping a load leaves is the
\* one the traversal of its model yields from an empty bones object,
\* whatever an earlier load resolved or left behind, so that the same rig
\* resolved twice has the same mapping.
C22_ResolutionDeterministic ==
    currentModel.id # 0 =>
        modelBones = [of |-> currentModel.id,
                      map |-> MapBones(currentModel.rig)]

C22_Witness ==
    /\ received[1] = "tree"
    /\ currentModel.id = 2
    /\ modelBones.of = 2
    /\ modelBones.map # NoBones
    /\ modelBones.map["head"] = 0

\* Shoulder, elbow and wrist on one line, the wrist beyond the elbow.
StraightArm(shoulder, elbow, wrist) ==
    /\ shoulder.has /\ elbow.has /\ wrist.has
    /\ (elbow.x - shoulder.x) * (wrist.y - elbow.y)
           = (elbow.y - shoulder.y) * (wrist.x - elbow.x)
    /\ (elbow.x - shoulder.x) * (wrist.x - elbow.x)
           + (elbow.y - shoulder.y) * (wrist.y - elbow.y) > 0

\* C23: for a straight arm the elbow bend target is 0 on both sides (0 =
\* straight, negative = bent for the left arm), and the bend grows as the
\* arm folds: folded past a right angle, the left bend is beyond -pi/2.
C23_StraightArmNoBend ==
    (Mirror /\ relation = "twin" /\ retargeted = {1, 2}) =>
        /\ StraightArm(probe[L_SHOULDER], probe[L_ELBOW], probe[L_WRIST]) =>
               Within(targets["leftElbow"].v, 0)
        /\ StraightArm(probe2[R_SHOULDER], probe2[R_ELBOW], probe2[R_WRIST]) =>
               Within(targets2["rightElbow"].v, 0)
        /\ (targets["leftElbow"].has /\ Finite(targets["leftElbow"].v)
              /\ (probe[L_ELBOW].x - probe[L_SHOULDER].x)
                     * (probe[L_WRIST].x - probe[L_ELBOW].x)
                 + (probe[L_ELBOW].y - probe[L_SHOULDER].y)
                       * (probe[L_WRIST].y - probe[L_ELBOW].y) < 0) =>
               targets["leftElbow"].v <= -HalfPi + Eps

\* C29: after any interleaving of avatar selections, re-creations of the
\* scene and completions of loads, at most one avatar model is attached to
\* the current scene.
C29_OneModelInScene == Cardinality(sceneModels) <= 1

C25_ThreeStepStartup ==
    /\ startup.cameraReady => startup.camera = "streaming"
    /\ (startup.avatar # "absent" \/ startup.avatarReady) => startup.cameraReady
    /\ startup.avatarReady => startup.avatar = "created"
    /\ startup.pose # "off" => (startup.cameraReady /\ startup.avatarReady)
    /\ nframes > 0 => (startup.pose = "running" /\ startup.avatar = "created")
    /\ startup.camera = "failed" =>
           (startup.avatar = "absent" /\ startup.pose = "off" /\ nframes = 0)

C25_Witness ==
    /\ startup.pose = "running"
    /\ nframes > 0
    /\ last.detected
    /\ avatarBones # InitialBones

\* C26: a failure while the hands are being initialized is isolated.  In a
\* mounted run whose hands failed (at the import or at setOptions) the
\* component's error is unset, loading is finished, and the run's Pose and
\* Camera are still up, so pose results keep being processed and delivered.
C26_HandFailureIsolated ==
    \A i \in 1..MaxEffects :
        LET r == effects.run[i]
        IN  (r.mounted /\ r.hands \in {"failed", "broken"}) =>
                /\ ~effects.error
                /\ ~effects.isLoading
                /\ r.init = "started"
                /\ r.pose = "open"
                /\ r.camera = "on"

C26_Witness ==
    \E i \in 1..MaxEffects :
        /\ effects.run[i].mounted
        /\ effects.run[i].hands \in {"failed", "broken"}
        /\ effects.run[i].poseAfter
        /\ app.personDetected

\* C27: once a run of the detection effect has been cleaned up, no step of
\* it (results of a frame in flight, its 3 s timer, a resumed await, its
\* 100 ms timer) calls onPersonDetected, onPoseDetected or onHandsDetected,
\* changes React state, or creates a Pose, a Camera or a Hands object.
C27_NothingAfterCleanup ==
    [][\A i \in 1..MaxEffects :
          (/\ ~effects.run[i].mounted
           /\ ~effects'.run[i].mounted
           /\ effects'.run[i] # effects.run[i]) =>
              /\ UNCHANGED <<appVars, historyVars>>
              /\ effects'.rerender = effects.rerender
              /\ effects'.handsData = effects.handsData
              /\ effects'.error = effects.error
              /\ effects'.isLoading = effects.isLoading
              /\ effects'.run[i].pose = "open" => effects.run[i].pose = "open"
              /\ effects'.run[i].camera = "on" => effects.run[i].camera = "on"
              /\ effects'.run[i].hands = "configuring" =>
                     effects.run[i].hands = "configuring"]_vars

C27_Witness ==
    \E i \in 1..MaxEffects :
        /\ ~effects.run[i].mounted
        /\ effects.run[i].closing
        /\ effects.run[i].timer = "fired"
        /\ effects.run[i].hands = "returned"
        /\ effects.run[i].pose = "open"

\* C28: while PoseDetector stays mounted in ARMirrorApp and a person is
\* detected in every frame, the hands eventually become active in the
\* current run (unless the component is unmounted, or their
\* initialization, or that of the run, fails): the
\* tear-down at every delivered pose result does not cancel the delayed
\* initialization for ever.
C28_HandsEventuallyActive ==
    (input = "hold") ~>
        LET r == effects.run[effects.current]
        IN  \/ ~r.mounted
            \/ r.hands = "listening"
            \/ r.hands \in {"failed", "broken"}
            \/ r.init \in {"failed", "novideo"}
            \/ effects.error

==========================================================================
